---- MODULE Spec2Model ----
(***************************************************************************)
(* Model of the IND320 Streamlit dashboard's analysis pages:               *)
(*   pages/6_Outliers_and_LOF.py   SATV (DCT high-pass) + SPC bands, LOF   *)
(*   pages/3_STL_and_Spectrogram.py STL parameters, spectrogram            *)
(*   pages/2_Production.py          area selector and weather prefetch     *)
(* Every Streamlit interaction re-runs a page script top to bottom; one    *)
(* action below is one such run of one tab (or page) with the widget       *)
(* values of that run.                                                     *)
(*                                                                         *)
(* Arithmetic is exact (rationals held as scaled integers); IEEE rounding  *)
(* of the floating-point pipeline is not modelled.                         *)
(***************************************************************************)
EXTENDS Integers, Sequences, FiniteSets

VARIABLES
    wx_temp,        \* weather_2021["temperature_2m"] after pd.to_numeric (6:58)
    spc,            \* what the last run of tab_spc computed
    spc_prev,       \* what the run of tab_spc before that computed
    x_dct,          \* x right after x = dct(s, norm="ortho") (6:59)
    x,              \* x after x[:max(1, cutoff)] = 0.0 (6:61)
    satv_len,       \* len(idct(x)) (6:62), 0 before the filter has run
    sat_keep,       \* dct_keep_frac of the filter run, in hundredths
    z_len,          \* len(z): samples of the precipitation feature (6:92)
    lof,            \* what the last run of tab_lof computed
    stl,            \* the arguments the last run of tab_stl passed to STL
    s2_len,         \* len(s2): samples of the production series (3:102)
    sg,             \* what the last run of tab_spec computed
    sg_prev,        \* what the run of tab_spec before that computed
    session,        \* st.session_state (the keys the pages share)
    prod_cache,     \* st.cache_data of fetch_era5_2021 in 2_Production.py
    outl_cache,     \* st.cache_data of fetch_era5_2021 in 6_Outliers_and_LOF.py
    analysed        \* what the last run of the Outliers page analysed

vars == <<wx_temp, spc, spc_prev, x_dct, x, satv_len, sat_keep, z_len, lof,
          stl, s2_len, sg, sg_prev, session, prod_cache, outl_cache, analysed>>

spcVars == <<wx_temp, spc, spc_prev>>
satvVars == <<x_dct, x, satv_len, sat_keep>>
lofVars == <<z_len, lof>>
stlVars == <<stl>>
sgVars == <<s2_len, sg, sg_prev>>
sessVars == <<session, prod_cache, outl_cache, analysed>>

(***************************************************************************)
(* Generic helpers                                                         *)
(***************************************************************************)
Max(a, b) == IF a >= b THEN a ELSE b

Min(a, b) == IF a <= b THEN a ELSE b

Abs(a) == IF a < 0 THEN 0 - a ELSE a

RECURSIVE SumSeq(_)
SumSeq(q) == IF q = <<>> THEN 0 ELSE Head(q) + SumSeq(Tail(q))

\* The k-th smallest element (1-based) of a non-empty integer sequence.
KthSmallest(q, k) ==
    CHOOSE v \in {q[i] : i \in DOMAIN q} :
        /\ Cardinality({i \in DOMAIN q : q[i] < v}) < k
        /\ Cardinality({i \in DOMAIN q : q[i] <= v}) >= k

\* Twice np.median(q): the middle element, or the mean of the two middle ones.
TwiceMedian(q) ==
    LET n == Len(q) IN
    IF n % 2 = 1 THEN 2 * KthSmallest(q, (n + 1) \div 2)
    ELSE KthSmallest(q, n \div 2) + KthSmallest(q, n \div 2 + 1)

CountTrue(flags) == Cardinality({i \in DOMAIN flags : flags[i]})

(***************************************************************************)
(* pages/6_Outliers_and_LOF.py, tab_spc: SATV (DCT high-pass) + SPC bands  *)
(*                                                                         *)
(* A series of n samples is a sequence of integers.  The residual and the  *)
(* statistics derived from it are rationals, held as integers in fixed     *)
(* units:  satv in 1/(4n),  med2 in 1/(8n),  mad4 in 1/(16n).              *)
(***************************************************************************)
MaxLen == 3

\* What pd.to_numeric(..., errors="coerce") leaves for a non-numeric sample.
NaN == -1

SampleVals == {0, 1, 5}

\* End-to-end example 1 of the specification.
Example1 == <<0, 0, 0, 0, 0, 100, 0, 0, 0, 0>>

TempSeries ==
    UNION {[1..n -> SampleVals \cup {NaN}] : n \in 2..MaxLen} \cup {Example1}

\* Values of the two sliders of tab_spc the model draws (hundredths, tenths).
KeepFracs == {5, 10}

KSigmas == {20, 30, 50}

HasNaN(s) == \E i \in DOMAIN s : s[i] = NaN

\* cutoff = int(len(x) * dct_keep_frac), dct_keep_frac = keep / 100
Cutoff(n, keep) == (n * keep) \div 100

SliceStopNoFloor(n, keep) == Cutoff(n, keep)

\* The stop index of the slice x[:max(1, cutoff)].
SliceStop(n, keep) == Max(1, Cutoff(n, keep))

\* The number of coefficients that slice covers in a vector of n.
ZeroCount(n, keep) == Min(n, SliceStop(n, keep))

\* 2*cos(pi*t/n), for the angles at which it is an integer.
TwoCos(t, n) ==
    LET u == ((6 * Abs(t)) \div n) % 12 IN
    CASE (6 * Abs(t)) % n = 0 /\ u = 0 -> 2
      [] (6 * Abs(t)) % n = 0 /\ u \in {2, 10} -> 1
      [] (6 * Abs(t)) % n = 0 /\ u \in {3, 9} -> 0
      [] (6 * Abs(t)) % n = 0 /\ u \in {4, 8} -> -1
      [] (6 * Abs(t)) % n = 0 /\ u = 6 -> -2

\* 4n times the part of s[i] carried by DCT-II basis vector k >= 1:
\* phi_k(i) * sum_j phi_k(j) * s[j], phi_k(i) = sqrt(2/n) cos(pi (2i-1) k / 2n).
BasisPart(s, k, i) ==
    LET n == Len(s) IN
    SumSeq([j \in 1..n |->
        2 * (TwoCos(k * (i + j - 1), n) + TwoCos(k * (i - j), n)) * s[j]])

RECURSIVE LowPart(_, _, _)
LowPart(s, k, i) ==
    IF k = 0 THEN 0 ELSE BasisPart(s, k, i) + LowPart(s, k - 1, i)

\* idct(x, norm="ortho") after the first nz coefficients of dct(s, norm="ortho")
\* were set to zero, in units of 1/(4n).  Basis vector 0 carries the mean.
HighPass(s, nz) ==
    LET n == Len(s) IN
    IF nz >= n THEN [i \in 1..n |-> 0]
    ELSE [i \in 1..n |-> 4 * n * s[i] - 4 * SumSeq(s) - LowPart(s, nz - 1, i)]

\* v - med > k_sigma * sigma with sigma = 1.4826 * (mad or 1e-9), where
\* d2 = 2*(v - med) in units of 1/(8n) and k10 = 10 * k_sigma.
\* With mad = 0 the spread is the floor 1e-9:  d2/(8n) > (k10/10)*1.4826e-9.
Beyond(d2, k10, mad4, n) ==
    IF mad4 = 0
    THEN d2 > ((8 * n * k10 * 14826) \div 10000000) \div 10000000
    ELSE d2 * 100000 > k10 * 7413 * mad4

FlagInside(v, med2, k10, mad4, n) ==
    ~Beyond(med2 - 2 * v, k10, mad4, n) /\ ~Beyond(2 * v - med2, k10, mad4, n)

FlagBothSides(v, med2, k10, mad4, n) ==
    Beyond(med2 - 2 * v, k10, mad4, n) /\ Beyond(2 * v - med2, k10, mad4, n)

\* out = (satv < lo) | (satv > hi)
Flag(v, med2, k10, mad4, n) ==
    Beyond(med2 - 2 * v, k10, mad4, n) \/ Beyond(2 * v - med2, k10, mad4, n)

SpcNone ==
    [ran |-> FALSE, raised |-> "none", keep |-> 0, k_sigma |-> 0, nz |-> 0,
     nan |-> FALSE, satv |-> <<>>, med2 |-> 0, mad4 |-> 0, out |-> <<>>]

\* Lines 58-67 for the series s and the slider values keep/100 and k10/10.
\* A NaN sample makes every DCT coefficient NaN; the coefficients that are not
\* overwritten by 0.0 make every residual, the median, the MAD (NaN is truthy,
\* so "or 1e-9" keeps it) and both bounds NaN, and every comparison False.
SpcPipeline(s, keep, k10) ==
    LET n    == Len(s)
        nz   == ZeroCount(n, keep)
        nan  == HasNaN(s) /\ nz < n
        satv == IF nan THEN [i \in 1..n |-> NaN]
                ELSE IF HasNaN(s) THEN [i \in 1..n |-> 0]
                ELSE HighPass(s, nz)
        med2 == IF nan THEN 0 ELSE TwiceMedian(satv)
        dev2 == [i \in 1..n |-> Abs(2 * satv[i] - med2)]
        mad4 == IF nan THEN 0 ELSE TwiceMedian(dev2)
    IN  [ran |-> TRUE, raised |-> "none", keep |-> keep, k_sigma |-> k10,
         nz |-> nz, nan |-> nan, satv |-> satv, med2 |-> med2, mad4 |-> mad4,
         out |-> [i \in 1..n |->
                    IF nan THEN FALSE ELSE Flag(satv[i], med2, k10, mad4, n)]]

\* One run of the SPC tab with the sliders at keep and k10.
tab_spc(keep, k10) ==
    /\ spc' = SpcPipeline(wx_temp, keep, k10)
    /\ spc_prev' = spc
    /\ UNCHANGED <<wx_temp, satvVars, lofVars, stlVars, sgVars, sessVars>>

(***************************************************************************)
(* tab_spc, lines 59-62, on the coefficient vector.  dct(., norm="ortho")  *)
(* is an orthonormal (hence bijective) map of R^n, so the vectors x_dct    *)
(* ranges over stand for the transforms of the series of that length.      *)
(***************************************************************************)
MaxCoefLen == 30

CoefVals == {0, 1, 2}

\* keepFraction in (0, 1), in hundredths.  The slider "DCT high-pass" of the
\* page produces 0.01 .. 0.20 of them.
KeepHundredths == 1..99

CoefVectors ==
    {[i \in 1..n |-> IF i % 2 = 1 THEN a ELSE b] :
        n \in 2..MaxCoefLen, a \in CoefVals, b \in CoefVals}

\* q[:stop] = 0.0
ZeroPrefix(q, stop) == [i \in 1..Len(q) |-> IF i <= stop THEN 0 ELSE q[i]]

\* idct(q, norm="ortho") returns one sample per coefficient.
IdctLen(q) == Len(q)

satv_filter(keep) ==
    /\ x' = ZeroPrefix(x_dct, SliceStop(Len(x_dct), keep))
    /\ satv_len' = IdctLen(x')
    /\ sat_keep' = keep
    /\ UNCHANGED <<x_dct, spcVars, lofVars, stlVars, sgVars, sessVars>>

(***************************************************************************)
(* pages/6_Outliers_and_LOF.py, tab_lof                                    *)
(*                                                                         *)
(* LocalOutlierFactor.fit_predict (scikit-learn) computes one score per    *)
(* sample (negative_outlier_factor_), sets the threshold offset_ to the    *)
(* 100*contamination-th percentile of the scores (numpy, linear            *)
(* interpolation) and labels -1 the samples whose score is strictly below  *)
(* it.  The scores themselves are not computed here: a run draws them from *)
(* ScoreVectors.  A constant feature series (e.g. a year without rain, or  *)
(* a column that is all missing and filled with 0.0) gives every sample    *)
(* the same score.                                                         *)
(***************************************************************************)
MaxSamples == 41

MaxTied == 3

\* Values of slider("Proportion of anomalies", 0.001, 0.05, 0.01, 0.001), in
\* thousandths: minimum, default, maximum.
Contaminations == {1, 10, 50}

\* Values of number_input("n_neighbors", 5, 100, 35): minimum, default, maximum.

NeighborInputs == {5, 35, 100}

\* Scores in ascending order: either all distinct, or `a` samples at a low
\* score and the rest tied at one higher score.
ScoreVectors(n) ==
    {[i \in 1..n |-> i]} \cup
    {[i \in 1..n |-> IF i <= a THEN 0 ELSE 10] : a \in 0..Min(n, MaxTied)}

\* nn = min(max(5, int(n_neighbors)), max(5, len(z) - 1))
EffectiveNeighbors(k, n) == Min(Max(5, k), Max(5, n - 1))

\* 1000 * np.percentile(nof, 100 * c), c = c1000 / 1000, 0 < c < 1, Len >= 2.
Percentile1000(nof, c1000) ==
    LET h == c1000 * (Len(nof) - 1)
        j == h \div 1000
        g == h % 1000
        lo == KthSmallest(nof, j + 1)
        hi == KthSmallest(nof, j + 2)
    IN  1000 * lo + g * (hi - lo)

PredictNonStrict(nof, c1000) ==
    LET offset == Percentile1000(nof, c1000) IN
    [i \in DOMAIN nof |-> 1000 * nof[i] <= offset]

\* labels == -1: negative_outlier_factor_ < offset_
Predict(nof, c1000) ==
    LET offset == Percentile1000(nof, c1000) IN
    [i \in DOMAIN nof |-> 1000 * nof[i] < offset]

LofNone ==
    [ran |-> FALSE, raised |-> "none", nn |-> 0, contamination |-> 0,
     nof |-> <<>>, out2 |-> <<>>]

\* One run of the LOF tab (lines 92-96).  The page raises nothing itself.
tab_lof(c1000, k, nof) ==
    /\ lof' = [ran |-> TRUE, raised |-> "none",
               nn |-> EffectiveNeighbors(k, z_len), contamination |-> c1000,
               nof |-> nof, out2 |-> Predict(nof, c1000)]
    /\ UNCHANGED <<z_len, spcVars, satvVars, stlVars, sgVars, sessVars>>

(***************************************************************************)
(* pages/3_STL_and_Spectrogram.py, tab_stl: the values handed to STL       *)
(***************************************************************************)
MaxPeriodDays == 5

MaxSeasonalSteps == 3

MaxTrendSteps == 5

\* number_input("Period (hours)", 24, 24*60, 24*7, step=24)
Periods == {24 * d : d \in 1..Min(MaxPeriodDays, 60)}

\* slider("Seasonal smoother", 7, 61, 13, step=2)
Seasonals == {7 + 2 * i : i \in 0..Min(MaxSeasonalSteps, 27)}

\* slider("Trend smoother", 51, 601, 301, step=10)
Trends == {51 + 10 * i : i \in 0..Min(MaxTrendSteps, 55)}

StlNone == [ran |-> FALSE, period |-> 0, seasonal |-> 0, trend |-> 0]

\* One run of the STL tab on a non-empty series (line 59): the widget values
\* go to STL as they are.
tab_stl(p, se, tr) ==
    /\ stl' = [ran |-> TRUE, period |-> p, seasonal |-> se, trend |-> tr]
    /\ UNCHANGED <<spcVars, satvVars, lofVars, sgVars, sessVars>>

(***************************************************************************)
(* pages/3_STL_and_Spectrogram.py, tab_spec                                *)
(*                                                                         *)
(* scipy.signal.spectrogram(x, nperseg, noverlap) with the default         *)
(* nfft = nperseg, no padding and no boundary extension: a segment length  *)
(* above len(x) is replaced by len(x) with a warning; noverlap >= nperseg  *)
(* raises ValueError; the result has nperseg // 2 + 1 frequency bins and   *)
(* (len(x) - noverlap) // (nperseg - noverlap) time windows.               *)
(***************************************************************************)
MaxSeriesLen == 130

MaxWindowDays == 5

\* number_input("Window length (hours)", 24, 24*60, 24*14, step=24)
WindowLens == {24 * d : d \in 1..Min(MaxWindowDays, 60)}

\* slider("Window overlap", 0.0, 0.9, 0.5, 0.05), in twentieths; the values
\* the model draws.
Overlaps == {0, 1, 10, 18}

\* noverlap = int(nperseg * float(overlap))
Noverlap(nperseg, ov20) == (nperseg * ov20) \div 20

\* The segment length scipy uses when nperseg is not passed (default 256).
UsedNpersegDefault(nperseg, n) == Min(256, n)

\* The segment length scipy uses.
UsedNperseg(nperseg, n) == Min(nperseg, n)

FreqBins(used) == used \div 2 + 1

TimeWindows(n, used, nov) == (n - nov) \div (used - nov)

SgNone ==
    [ran |-> FALSE, called |-> FALSE, raised |-> "none", window_len |-> 0,
     overlap |-> 0, nperseg |-> 0, noverlap |-> 0, nbins |-> 0, nwin |-> 0]

Spectrogram(n, w, ov20) ==
    LET nov  == Noverlap(w, ov20)
        used == UsedNperseg(w, n)
    IN  IF nov >= used
        THEN [ran |-> TRUE, called |-> TRUE, raised |-> "ValueError",
              window_len |-> w, overlap |-> ov20, nperseg |-> used,
              noverlap |-> nov, nbins |-> 0, nwin |-> 0]
        ELSE [ran |-> TRUE, called |-> TRUE, raised |-> "none",
              window_len |-> w, overlap |-> ov20, nperseg |-> used,
              noverlap |-> nov, nbins |-> FreqBins(used),
              nwin |-> TimeWindows(n, used, nov)]

\* One run of the spectrogram tab (lines 109-114).
tab_spec(w, ov20) ==
    /\ sg' = IF s2_len = 0
             THEN [SgNone EXCEPT !.ran = TRUE, !.window_len = w,
                                 !.overlap = ov20]
             ELSE Spectrogram(s2_len, w, ov20)
    /\ sg_prev' = sg
    /\ UNCHANGED <<s2_len, spcVars, satvVars, lofVars, stlVars, sessVars>>

(***************************************************************************)
(* pages/2_Production.py and pages/6_Outliers_and_LOF.py: the selection    *)
(* and the weather shared through st.session_state.  A weather frame is    *)
(* identified by the city whose coordinates it was fetched for.            *)
(***************************************************************************)
Areas == {"NO1", "NO2", "NO3", "NO4", "NO5"}

\* ("Tromso" stands for the city the source spells with a stroked o.)
PRICE_AREAS ==
    [a \in Areas |->
        CASE a = "NO1" -> "Oslo"
          [] a = "NO2" -> "Kristiansand"
          [] a = "NO3" -> "Trondheim"
          [] a = "NO4" -> "Tromso"
          [] a = "NO5" -> "Bergen"]

Unset == "unset"

SessionNone ==
    [selected_area |-> Unset, selected_city |-> Unset, weather_2021 |-> Unset]

AnalysedNone == [ran |-> FALSE, area |-> Unset, city |-> Unset, wx |-> Unset]

\* area, city, lat, lon = get_selection()
get_selection ==
    LET area == IF session.selected_area = Unset THEN "NO1"
                ELSE session.selected_area
    IN  [area |-> area, city |-> PRICE_AREAS[area]]

\* One run of the Production page (lines 61-75).  The fetch can raise (network,
\* HTTP or JSON error) unless st.cache_data holds its result; when it raises,
\* the run ends there: the three selection keys are written, weather_2021 is not.
production_page(area, fetch_ok) ==
    /\ fetch_ok \/ PRICE_AREAS[area] \notin prod_cache
    /\ session' =
         [selected_area |-> area,
          selected_city |-> PRICE_AREAS[area],
          weather_2021 |-> IF fetch_ok THEN PRICE_AREAS[area]
                           ELSE session.weather_2021]
    /\ prod_cache' = IF fetch_ok THEN prod_cache \cup {PRICE_AREAS[area]}
                     ELSE prod_cache
    /\ UNCHANGED <<analysed, outl_cache, spcVars, satvVars, lofVars, stlVars,
                   sgVars>>

\* One run of the Outliers page (lines 48-55, 83-90): the session's weather
\* when there is one, else a fetch for the selected coordinates.
outliers_page(fetch_ok) ==
    LET sel == get_selection IN
    /\ fetch_ok \/ (session.weather_2021 = Unset /\ sel.city \notin outl_cache)
    /\ analysed' =
         IF session.weather_2021 # Unset
         THEN [ran |-> TRUE, area |-> sel.area, city |-> sel.city,
               wx |-> session.weather_2021]
         ELSE IF fetch_ok
         THEN [ran |-> TRUE, area |-> sel.area, city |-> sel.city,
               wx |-> sel.city]
         ELSE AnalysedNone
    /\ outl_cache' = IF session.weather_2021 = Unset /\ fetch_ok
                     THEN outl_cache \cup {sel.city} ELSE outl_cache
    /\ UNCHANGED <<session, prod_cache, spcVars, satvVars, lofVars, stlVars,
                   sgVars>>

(***************************************************************************)
(* Specifications: one per page section.  The variables of the other       *)
(* sections stay at their idle values.                                     *)
(***************************************************************************)
IdleSpc == wx_temp = <<>> /\ spc = SpcNone /\ spc_prev = SpcNone

IdleSatv == x_dct = <<>> /\ x = <<>> /\ satv_len = 0 /\ sat_keep = 0

IdleLof == z_len = 0 /\ lof = LofNone

IdleStl == stl = StlNone

IdleSg == s2_len = 0 /\ sg = SgNone /\ sg_prev = SgNone

IdleSess ==
    /\ session = SessionNone
    /\ prod_cache = {}
    /\ outl_cache = {}
    /\ analysed = AnalysedNone

InitSPC ==
    /\ wx_temp \in TempSeries
    /\ spc = SpcNone
    /\ spc_prev = SpcNone
    /\ IdleSatv /\ IdleLof /\ IdleStl /\ IdleSg /\ IdleSess

NextSPC == \E keep \in KeepFracs, k10 \in KSigmas : tab_spc(keep, k10)

SpecSPC == InitSPC /\ [][NextSPC]_vars

InitSATV ==
    /\ x_dct \in CoefVectors
    /\ x = x_dct
    /\ satv_len = 0
    /\ sat_keep = 0
    /\ IdleSpc /\ IdleLof /\ IdleStl /\ IdleSg /\ IdleSess

NextSATV == \E keep \in KeepHundredths : satv_filter(keep)

SpecSATV == InitSATV /\ [][NextSATV]_vars

InitLOF ==
    /\ z_len \in 2..MaxSamples
    /\ lof = LofNone
    /\ IdleSpc /\ IdleSatv /\ IdleStl /\ IdleSg /\ IdleSess

NextLOF ==
    \E c1000 \in Contaminations, k \in NeighborInputs,
       nof \in ScoreVectors(z_len) : tab_lof(c1000, k, nof)

SpecLOF == InitLOF /\ [][NextLOF]_vars

InitSTL ==
    /\ stl = StlNone
    /\ IdleSpc /\ IdleSatv /\ IdleLof /\ IdleSg /\ IdleSess

NextSTL == \E p \in Periods, se \in Seasonals, tr \in Trends : tab_stl(p, se, tr)

SpecSTL == InitSTL /\ [][NextSTL]_vars

InitSG ==
    /\ s2_len \in 0..MaxSeriesLen
    /\ sg = SgNone
    /\ sg_prev = SgNone
    /\ IdleSpc /\ IdleSatv /\ IdleLof /\ IdleStl /\ IdleSess

NextSG == \E w \in WindowLens, ov20 \in Overlaps : tab_spec(w, ov20)

SpecSG == InitSG /\ [][NextSG]_vars

InitSession ==
    /\ session = SessionNone
    /\ prod_cache = {}
    /\ outl_cache = {}
    /\ analysed = AnalysedNone
    /\ IdleSpc /\ IdleSatv /\ IdleLof /\ IdleStl /\ IdleSg

NextSession ==
    \/ \E area \in Areas, fetch_ok \in BOOLEAN : production_page(area, fetch_ok)
    \/ \E fetch_ok \in BOOLEAN : outliers_page(fetch_ok)

SpecSession == InitSession /\ [][NextSession]_vars

(***************************************************************************)
(* Properties                                                              *)
(***************************************************************************)

\* Two consecutive runs of the SPC tab worked on the same residual series.
SameResidual == spc.ran /\ spc_prev.ran /\ spc.satv = spc_prev.satv

\* C1 (as stated): for a fixed residual series and multipliers k1 <= k2, the
\* number of samples flagged with k2 is never smaller than with k1.
C1_CountNeverSmaller ==
    (SameResidual /\ spc_prev.k_sigma <= spc.k_sigma)
        => CountTrue(spc.out) >= CountTrue(spc_prev.out)

\* C1 (amended): for a fixed residual series and multipliers k1 <= k2, the
\* number of samples flagged with k2 is never larger than with k1.
C1_CountNeverLarger ==
    (SameResidual /\ spc_prev.k_sigma <= spc.k_sigma)
        => CountTrue(spc.out) <= CountTrue(spc_prev.out)

C1_Witness ==
    /\ SameResidual
    /\ spc_prev.k_sigma < spc.k_sigma
    /\ CountTrue(spc.out) < CountTrue(spc_prev.out)

IsExample1Run ==
    spc.ran /\ wx_temp = Example1 /\ spc.keep = 10 /\ spc.k_sigma = 30

C3_NeighborsInRange ==
    lof.ran
        => /\ lof.raised = "none" => (5 <= lof.nn /\ lof.nn <= z_len - 1)
           /\ z_len < 6 => lof.raised = "InvalidParameterError"

\* round(c * N) as Python rounds (half to even), c = c1000 / 1000.
RoundCN(c1000, n) ==
    LET q == (c1000 * n) \div 1000
        r == (c1000 * n) % 1000
    IN  IF r < 500 \/ (r = 500 /\ q % 2 = 0) THEN q ELSE q + 1

AllDistinct(q) == \A i, j \in DOMAIN q : i # j => q[i] # q[j]

C5_ZeroedPrefix ==
    sat_keep # 0
        => LET n == Len(x_dct)
               m == Max(1, (n * sat_keep) \div 100)
           IN  /\ 1 <= m /\ m <= n
               /\ Len(x) = n
               /\ \A i \in 1..n : x[i] = IF i <= m THEN 0 ELSE x_dct[i]
               /\ satv_len = n

C5_Witness ==
    /\ sat_keep \in 1..20
    /\ (Len(x_dct) * sat_keep) \div 100 >= 2
    /\ \E i \in DOMAIN x : x[i] # 0
    /\ \E i \in DOMAIN x : x[i] = 0 /\ x_dct[i] # 0

\* Two consecutive spectrograms of the same series with the same overlap, the
\* second with the longer segment, both segments within the series.
ComparableSpectrograms ==
    /\ sg.called /\ sg_prev.called
    /\ sg.raised = "none" /\ sg_prev.raised = "none"
    /\ sg.overlap = sg_prev.overlap
    /\ sg_prev.window_len < sg.window_len
    /\ sg.window_len <= s2_len

\* C6 (as stated): the spectrogram with the longer segment has more frequency
\* bins and fewer time windows.
C6_MoreBinsFewerWindows ==
    ComparableSpectrograms
        => sg.nbins > sg_prev.nbins /\ sg.nwin < sg_prev.nwin

\* C6 (amended): the spectrogram with the longer segment has more frequency
\* bins and no more time windows (the number of windows may stay the same).
C6_MoreBinsNoMoreWindows ==
    ComparableSpectrograms
        => sg.nbins > sg_prev.nbins /\ sg.nwin <= sg_prev.nwin

C6_Witness ==
    /\ ComparableSpectrograms
    /\ sg.overlap > 0
    /\ sg.nwin < sg_prev.nwin

\* C7: a spectrogram requested with a segment longer than the series fails
\* with InvalidParameterError and produces no power grid.
C7_LongSegmentRejected ==
    (sg.called /\ sg.window_len > s2_len)
        => sg.raised = "InvalidParameterError" /\ sg.nbins = 0 /\ sg.nwin = 0

\* C8: a temperature series with a non-numeric (missing) sample makes the
\* SATV + SPC computation fail with InvalidSeriesError before any bounds or
\* flags are produced.
C8_NaNRejected ==
    (spc.ran /\ HasNaN(wx_temp))
        => spc.raised = "InvalidSeriesError" /\ spc.out = <<>>

\* C9: the values the STL tab passes to the decomposer satisfy its contract:
\* period >= 2, seasonal odd and >= 7, trend odd and >= period.
C9_StlArgsValid ==
    stl.ran
        => /\ stl.period >= 2
           /\ stl.seasonal % 2 = 1 /\ stl.seasonal >= 7
           /\ stl.trend % 2 = 1 /\ stl.trend >= stl.period

\* C10: the weather the Outliers page analyses is the weather of the area it
\* reads from the session (NO1 when none is set).
C10_WeatherOfSelectedArea ==
    analysed.ran => analysed.wx = PRICE_AREAS[analysed.area]

====
